---- MODULE Spec2Model ----
(***************************************************************************)
(* Sentinel-PQC scanner (src/scanner.py): the catalog and alias index, the *)
(* call-site matcher over a syntax tree, the key-size extractor, the risk  *)
(* classifier, the per-file and directory scan drivers and the asset       *)
(* inventory export; and the fix lookup of src/remediator.py.              *)
(*                                                                         *)
(* Syntax trees are values: a node is a record with the capabilities the   *)
(* scanner uses of a tree-sitter node (type, text, start row, children,    *)
(* field lookup by name).  Source text is kept as real strings, so that    *)
(* int(text), len(text), startswith and context[:100] are computed as the  *)
(* code computes them.                                                     *)
(***************************************************************************)
EXTENDS Integers, Sequences, FiniteSets, TLC

VARIABLES
    catalog,      \* PQCScanner.TARGETS: the catalog the scanner holds
    _alias_map,   \* PQCScanner._alias_map: alias -> canonical name
    constructed,  \* "no" before PQCScanner.__init__ ran, "yes" after, "failed" if it raised
    source,       \* the parsed content of the file at filepath (tree.root_node)
    filepath,     \* argument of scan_file
    pc,           \* "ready" before scan_file ran on the file, "done" after, "again" after a rescan
    results,      \* the list scan_file returned
    raised,       \* TRUE when scan_file ended with an uncaught exception
    dirpath,      \* argument of scan_directory
    dirtree,      \* the directory at dirpath, as os.walk lists it
    d_pc,         \* "ready" before scan_directory ran, "done" after
    all_results,  \* the list scan_directory returned
    d_raised,     \* TRUE when scan_directory ended with an uncaught exception
    scanned,      \* the scan_file calls scan_directory made: path and what the call returned
    cbom,         \* what generate_cbom returned
    finding,      \* generate_fix: finding
    fix,          \* generate_fix: the returned dict
    x_args,       \* _extract_key_size: args_node
    x_keys,       \* _extract_key_size: arg_keys
    x_out,        \* _extract_key_size: outcome
    r_algo,       \* _calculate_risk: algo
    r_bits,       \* _calculate_risk: bits
    r_out         \* _calculate_risk: returned tier

vars == <<catalog, _alias_map, constructed, source, filepath, pc, results, raised,
          dirpath, dirtree, d_pc, all_results, d_raised, scanned, cbom, finding, fix,
          x_args, x_keys, x_out, r_algo, r_bits, r_out>>

scannerVars == <<catalog, _alias_map, constructed>>
scanVars == <<source, filepath, pc, results, raised>>
dirVars == <<dirpath, dirtree, d_pc, all_results, d_raised, scanned>>
fixVars == <<finding, fix>>
extractVars == <<x_args, x_keys, x_out>>
riskVars == <<r_algo, r_bits, r_out>>

-----------------------------------------------------------------------------
(* Python values that may be an int or a str (the finding's "bits").       *)

PyInt(i) == [pytype |-> "int", i |-> i, s |-> ""]
PyStr(s) == [pytype |-> "str", i |-> 0, s |-> s]

Min(a, b) == IF a < b THEN a ELSE b

-----------------------------------------------------------------------------
(* Catalog: self.TARGETS, in insertion order.                              *)

TARGETS ==
    << [name |-> "RSA",
        methods  |-> <<"generate", "construct", "new_key">>,
        arg_keys |-> <<"bits", "size", "key_size">>,
        aliases  |-> <<"RSA", "PyRSA", "rsa", "_RSA">>],
       [name |-> "DSA",
        methods  |-> <<"generate", "construct">>,
        arg_keys |-> <<"bits", "key_size">>,
        aliases  |-> <<"DSA", "dsa">>],
       [name |-> "AES",
        methods  |-> <<"new", "encrypt", "decrypt">>,
        arg_keys |-> <<"key", "bits", "key_size">>,
        aliases  |-> <<"AES", "Cipher", "aes">>],
       [name |-> "EC",
        methods  |-> <<"generate", "generate_private_key", "new_key">>,
        arg_keys |-> <<"curve">>,
        aliases  |-> <<"EC", "ECC", "ECDSA", "ECDH", "ec">>],
       [name |-> "DES",
        methods  |-> <<"new">>,
        arg_keys |-> <<"key">>,
        aliases  |-> <<"DES", "DES3", "TripleDES">> ] >>

Range(seq) == {seq[i] : i \in DOMAIN seq}

\* dict.get(key) on self.TARGETS: the entry, or NoTarget (None)
NoTarget == [name |-> "", methods |-> <<>>, arg_keys |-> <<>>, aliases |-> <<>>]

TARGETS_get(name) ==
    IF \E i \in DOMAIN catalog : catalog[i].name = name
    THEN catalog[CHOOSE i \in DOMAIN catalog : catalog[i].name = name]
    ELSE NoTarget

\* __init__: the reverse lookup; a later assignment to the same alias
\* overwrites an earlier one, as dict item assignment does.
RECURSIVE BuildAliasMap(_, _, _, _)
BuildAliasMap(targets, i, j, map) ==
    IF i > Len(targets) THEN map
    ELSE IF j > Len(targets[i].aliases) THEN BuildAliasMap(targets, i + 1, 1, map)
    ELSE LET alias == targets[i].aliases[j]
             rest  == [a \in (DOMAIN map) \ {alias} |-> map[a]]
         IN  BuildAliasMap(targets, i, j + 1, (alias :> targets[i].name) @@ rest)

EmptyMap == [a \in {} |-> ""]

\* the alias lookup left out
_resolve_alias_identity(name) == name

\* self._alias_map.get(name, name)
_resolve_alias(name) ==
    IF name \in DOMAIN _alias_map THEN _alias_map[name] ELSE name

-----------------------------------------------------------------------------
(* str.upper() and int(str), character by character.                       *)

Lower == <<"a","b","c","d","e","f","g","h","i","j","k","l","m",
           "n","o","p","q","r","s","t","u","v","w","x","y","z">>
Upper == <<"A","B","C","D","E","F","G","H","I","J","K","L","M",
           "N","O","P","Q","R","S","T","U","V","W","X","Y","Z">>

UpperChar(c) ==
    IF \E i \in DOMAIN Lower : Lower[i] = c
    THEN Upper[CHOOSE i \in DOMAIN Lower : Lower[i] = c]
    ELSE c

RECURSIVE upper(_)
upper(s) ==
    IF s = "" THEN ""
    ELSE UpperChar(SubSeq(s, 1, 1)) \o upper(SubSeq(s, 2, Len(s)))

Digits == <<"0","1","2","3","4","5","6","7","8","9">>

IsDigit(c) == \E i \in DOMAIN Digits : Digits[i] = c
DigitVal(c) == (CHOOSE i \in DOMAIN Digits : Digits[i] = c) - 1

\* int(text) accepts decimal digits, with single underscores between
\* digits; any other text (0x800, 0o17, 0b1, 100L, 10j) is a ValueError.
RECURSIVE IntDigits(_, _, _, _)
IntDigits(text, i, acc, prevDigit) ==
    IF i > Len(text) THEN [ok |-> prevDigit, val |-> acc]
    ELSE LET c == SubSeq(text, i, i) IN
         IF IsDigit(c) THEN IntDigits(text, i + 1, 10 * acc + DigitVal(c), TRUE)
         ELSE IF c = "_" /\ prevDigit THEN IntDigits(text, i + 1, acc, FALSE)
         ELSE [ok |-> FALSE, val |-> 0]

int(text) == IntDigits(text, 1, 0, FALSE)

startswith(text, prefix) ==
    Len(text) >= Len(prefix) /\ SubSeq(text, 1, Len(prefix)) = prefix

-----------------------------------------------------------------------------
(* _calculate_risk                                                         *)

\* the RSA/DSA boundary taken as <= 2048
_calculate_risk_boundary(algo, bits) ==
    LET a == upper(algo) IN
    IF bits = 0 THEN "UNKNOWN"
    ELSE IF a \in {"RSA", "DSA"} THEN
        IF bits <= 2048 THEN "CRITICAL"
        ELSE IF bits < 4096 THEN "HIGH"
        ELSE "MEDIUM"
    ELSE IF a = "AES" THEN
        IF bits = 128 THEN "MEDIUM"
        ELSE IF bits \in {192, 256} THEN "LOW"
        ELSE "UNKNOWN"
    ELSE IF a \in {"EC", "ECC", "ECDSA", "ECDH"} THEN "HIGH"
    ELSE IF a \in {"DES", "3DES", "TRIPLEDES"} THEN "CRITICAL"
    ELSE "HIGH"

\* the AES branch without its final return, falling through to the default
_calculate_risk_fallthrough(algo, bits) ==
    LET a == upper(algo) IN
    IF bits = 0 THEN "UNKNOWN"
    ELSE IF a \in {"RSA", "DSA"} THEN
        IF bits < 2048 THEN "CRITICAL"
        ELSE IF bits < 4096 THEN "HIGH"
        ELSE "MEDIUM"
    ELSE IF a = "AES" /\ bits = 128 THEN "MEDIUM"
    ELSE IF a = "AES" /\ bits \in {192, 256} THEN "LOW"
    ELSE IF a \in {"EC", "ECC", "ECDSA", "ECDH"} THEN "HIGH"
    ELSE IF a \in {"DES", "3DES", "TRIPLEDES"} THEN "CRITICAL"
    ELSE "HIGH"

\* the DES check listing the 3DES names only
_calculate_risk_des(algo, bits) ==
    LET a == upper(algo) IN
    IF bits = 0 THEN "UNKNOWN"
    ELSE IF a \in {"RSA", "DSA"} THEN
        IF bits < 2048 THEN "CRITICAL"
        ELSE IF bits < 4096 THEN "HIGH"
        ELSE "MEDIUM"
    ELSE IF a = "AES" THEN
        IF bits = 128 THEN "MEDIUM"
        ELSE IF bits \in {192, 256} THEN "LOW"
        ELSE "UNKNOWN"
    ELSE IF a \in {"EC", "ECC", "ECDSA", "ECDH"} THEN "HIGH"
    ELSE IF a \in {"3DES", "TRIPLEDES"} THEN "CRITICAL"
    ELSE "HIGH"

_calculate_risk(algo, bits) ==
    LET a == upper(algo) IN
    IF bits = 0 THEN "UNKNOWN"
    ELSE IF a \in {"RSA", "DSA"} THEN
        IF bits < 2048 THEN "CRITICAL"
        ELSE IF bits < 4096 THEN "HIGH"
        ELSE "MEDIUM"
    ELSE IF a = "AES" THEN
        IF bits = 128 THEN "MEDIUM"
        ELSE IF bits \in {192, 256} THEN "LOW"
        ELSE "UNKNOWN"
    ELSE IF a \in {"EC", "ECC", "ECDSA", "ECDH"} THEN "HIGH"
    ELSE IF a \in {"DES", "3DES", "TRIPLEDES"} THEN "CRITICAL"
    ELSE "HIGH"

-----------------------------------------------------------------------------
(* Syntax-tree nodes, as the scanner sees them: node.type, node.text,      *)
(* node.start_point[0], node.children and child_by_field_name.  fields[i]  *)
(* is the grammar's field name of children[i] ("" when it has none).       *)

Node(type, text, row, children, fields) ==
    [type |-> type, text |-> text, row |-> row,
     children |-> children, fields |-> fields]

\* Python None where a node is expected
NoNode == Node("None", "", 0, <<>>, <<>>)

child_by_field_name(node, name) ==
    IF \E i \in DOMAIN node.fields : node.fields[i] = name
    THEN node.children[CHOOSE i \in DOMAIN node.fields :
                           /\ node.fields[i] = name
                           /\ \A j \in DOMAIN node.fields :
                                  node.fields[j] = name => i <= j]
    ELSE NoNode

_get_text(node, source_bytes) == node.text

Token(text, row)      == Node(text, text, row, <<>>, <<>>)
Identifier(name, row) == Node("identifier", name, row, <<>>, <<>>)
Integer(text, row)    == Node("integer", text, row, <<>>, <<>>)
String(text, row)     == Node("string", text, row, <<>>, <<>>)
Comment(text, row)    == Node("comment", text, row, <<>>, <<>>)

Attribute(obj, name) ==
    Node("attribute", obj.text \o "." \o name, obj.row,
         <<obj, Token(".", obj.row), Identifier(name, obj.row)>>,
         <<"object", "", "attribute">>)

KeywordArgument(name, value) ==
    Node("keyword_argument", name \o "=" \o value.text, value.row,
         <<Identifier(name, value.row), Token("=", value.row), value>>,
         <<"name", "", "value">>)

RECURSIVE JoinText(_, _)
JoinText(nodes, sep) ==
    IF nodes = <<>> THEN ""
    ELSE IF Len(nodes) = 1 THEN nodes[1].text
    ELSE nodes[1].text \o sep \o JoinText(Tail(nodes), sep)

RECURSIVE Interleave(_, _)
Interleave(nodes, sepNode) ==
    IF Len(nodes) <= 1 THEN nodes
    ELSE <<nodes[1], sepNode>> \o Interleave(Tail(nodes), sepNode)

ArgumentList(args, row) ==
    LET ch == <<Token("(", row)>> \o Interleave(args, Token(",", row))
                                  \o <<Token(")", row)>>
    IN  Node("argument_list", "(" \o JoinText(args, ", ") \o ")", row,
             ch, [i \in DOMAIN ch |-> ""])

Call(func, arglist) ==
    Node("call", func.text \o arglist.text, func.row,
         <<func, arglist>>, <<"function", "arguments">>)

\* a call node the error-tolerant parser left without an argument list
CallNoArgs(func) ==
    Node("call", func.text, func.row, <<func>>, <<"function">>)

ExpressionStatement(node) ==
    Node("expression_statement", node.text, node.row, <<node>>, <<"">>)

Assignment(name, value) ==
    Node("assignment", name \o " = " \o value.text, value.row,
         <<Identifier(name, value.row), Token("=", value.row), value>>,
         <<"left", "", "right">>)

Block(stmts, row) ==
    Node("block", JoinText(stmts, "\n"), row, stmts, [i \in DOMAIN stmts |-> ""])

FunctionDefinition(name, body, row) ==
    Node("function_definition", "def " \o name \o "():\n" \o body.text, row,
         <<Token("def", row), Identifier(name, row),
           Node("parameters", "()", row, <<>>, <<>>), Token(":", row), body>>,
         <<"", "name", "parameters", "", "body">>)

Module(stmts) ==
    Node("module", JoinText(stmts, "\n"), 0, stmts, [i \in DOMAIN stmts |-> ""])

\* the content of a file open() cannot read
Unreadable == Node("unreadable", "", 0, <<>>, <<>>)

-----------------------------------------------------------------------------
(* _extract_key_size: the key size, 0 when none is found; raised when      *)
(* int() raises ValueError.                                                *)

Returned(value) == [raised |-> FALSE, value |-> value]
ValueError      == [raised |-> TRUE,  value |-> 0]

RECURSIVE ExtractLoop(_, _, _)
ExtractLoop(children, i, arg_keys) ==
    IF i > Len(children) THEN Returned(0)
    ELSE
      LET child == children[i] IN
      IF child.type = "integer" THEN
          LET val == int(_get_text(child, NoNode)) IN
          IF ~val.ok THEN ValueError
          ELSE IF val.val >= 128 /\ val.val # 65537 THEN Returned(val.val)
          ELSE ExtractLoop(children, i + 1, arg_keys)
      ELSE IF child.type = "keyword_argument" THEN
          LET arg_name_node == child_by_field_name(child, "name")
              arg_val_node  == child_by_field_name(child, "value")
          IN
          IF /\ arg_name_node # NoNode
             /\ arg_val_node # NoNode
             /\ _get_text(arg_name_node, NoNode) \in Range(arg_keys)
          THEN
              IF arg_val_node.type = "integer" THEN
                  LET val == int(_get_text(arg_val_node, NoNode)) IN
                  IF val.ok THEN Returned(val.val) ELSE ValueError
              ELSE IF arg_val_node.type \in {"string", "binary_string"} THEN
                  LET key_text  == _get_text(arg_val_node, NoNode)
                      key_bytes == IF startswith(key_text, "b")
                                   THEN Len(key_text) - 3
                                   ELSE Len(key_text) - 2
                  IN  Returned(key_bytes * 8)
              ELSE ExtractLoop(children, i + 1, arg_keys)
          ELSE ExtractLoop(children, i + 1, arg_keys)
      ELSE ExtractLoop(children, i + 1, arg_keys)

\* variant: the positional integer literals are all tried before any named
\* argument
_extract_key_size_positional_first(args_node, arg_keys) ==
    IF args_node = NoNode THEN Returned(0)
    ELSE LET IsInteger(c) == c.type = "integer"
             positional   == ExtractLoop(SelectSeq(args_node.children, IsInteger),
                                         1, arg_keys)
         IN  IF positional.raised \/ positional.value # 0 THEN positional
             ELSE ExtractLoop(args_node.children, 1, arg_keys)

_extract_key_size(args_node, arg_keys) ==
    IF args_node = NoNode THEN Returned(0)
    ELSE ExtractLoop(args_node.children, 1, arg_keys)

-----------------------------------------------------------------------------
(* _find_calls: pre-order walk; the findings appended to results, or       *)
(* raised when key-size extraction raised (the exception leaves the walk). *)

Finding(node, canonical_name, method_name, key_size, risk) ==
    LET context == _get_text(node, NoNode) IN
    [file    |-> "",
     line    |-> node.row + 1,
     algo    |-> canonical_name,
     method  |-> method_name,
     bits    |-> IF key_size # 0 THEN PyInt(key_size) ELSE PyStr("Unknown"),
     risk    |-> risk,
     context |-> SubSeq(context, 1, Min(100, Len(context)))]

\* the body of "if node.type == 'call':" for one node
VisitNode(node, res) ==
    LET func == child_by_field_name(node, "function")
        args == child_by_field_name(node, "arguments")
        obj_node    == child_by_field_name(func, "object")
        method_node == child_by_field_name(func, "attribute")
        obj_name    == _get_text(obj_node, NoNode)
        method_name == _get_text(method_node, NoNode)
        canonical_name == _resolve_alias(obj_name)
        target_config  == TARGETS_get(canonical_name)
        key_size == _extract_key_size(args, target_config.arg_keys)
    IN
    IF /\ node.type = "call"
       /\ func # NoNode /\ func.type = "attribute"
       /\ obj_node # NoNode /\ method_node # NoNode
       /\ target_config # NoTarget
       /\ method_name \in Range(target_config.methods)
    THEN IF key_size.raised
         THEN [raised |-> TRUE, results |-> res]
         ELSE [raised |-> FALSE,
               results |-> Append(res,
                   Finding(node, canonical_name, method_name, key_size.value,
                           _calculate_risk(canonical_name, key_size.value)))]
    ELSE [raised |-> FALSE, results |-> res]

RECURSIVE _find_calls(_, _, _)
RECURSIVE FindInChildren(_, _, _, _)

_find_calls(node, source_code, res) ==
    LET here == VisitNode(node, res) IN
    IF here.raised THEN here
    ELSE FindInChildren(node.children, 1, source_code, here.results)

FindInChildren(children, i, source_code, res) ==
    IF i > Len(children) THEN [raised |-> FALSE, results |-> res]
    ELSE LET sub == _find_calls(children[i], source_code, res) IN
         IF sub.raised THEN sub
         ELSE FindInChildren(children, i + 1, source_code, sub.results)

-----------------------------------------------------------------------------
(* os.path.normpath on a POSIX relative or absolute path.                  *)

RECURSIVE SplitPath(_, _, _, _)
SplitPath(path, i, cur, acc) ==
    IF i > Len(path) THEN Append(acc, cur)
    ELSE IF SubSeq(path, i, i) = "/" THEN SplitPath(path, i + 1, "", Append(acc, cur))
    ELSE SplitPath(path, i + 1, cur \o SubSeq(path, i, i), acc)

RECURSIVE NormComps(_, _, _, _)
NormComps(comps, i, absolute, acc) ==
    IF i > Len(comps) THEN acc
    ELSE LET c == comps[i] IN
         IF c = "" \/ c = "." THEN NormComps(comps, i + 1, absolute, acc)
         ELSE IF c # ".." \/ (~absolute /\ acc = <<>>)
                 \/ (acc # <<>> /\ acc[Len(acc)] = "..")
              THEN NormComps(comps, i + 1, absolute, Append(acc, c))
         ELSE IF acc # <<>>
              THEN NormComps(comps, i + 1, absolute, SubSeq(acc, 1, Len(acc) - 1))
         ELSE NormComps(comps, i + 1, absolute, acc)

RECURSIVE JoinStrings(_, _)
JoinStrings(strs, sep) ==
    IF strs = <<>> THEN ""
    ELSE IF Len(strs) = 1 THEN strs[1]
    ELSE strs[1] \o sep \o JoinStrings(Tail(strs), sep)

normpath(path) ==
    LET absolute == startswith(path, "/")
        comps    == NormComps(SplitPath(path, 1, "", <<>>), 1, absolute, <<>>)
        joined   == JoinStrings(comps, "/")
    IN  IF absolute THEN "/" \o joined
        ELSE IF joined = "" THEN "." ELSE joined

-----------------------------------------------------------------------------
(* scan_file: what it returns for a file of the given content, or raised   *)
(* when the walk raised (scan_file catches only the failure to read).      *)

\* variant: the placeholder is left in place
SetFile_placeholder(res, path) == res

SetFile(res, path) ==
    [i \in DOMAIN res |-> [res[i] EXCEPT !.file = normpath(path)]]

\* variant: the findings are appended to the list of the scan before
scan_file_accumulating(path, content) ==
    IF content = Unreadable THEN [raised |-> FALSE, results |-> <<>>]
    ELSE LET found == _find_calls(content, content, <<>>) IN
         IF found.raised THEN [raised |-> TRUE, results |-> <<>>]
         ELSE [raised |-> FALSE, results |-> results \o SetFile(found.results, path)]

scan_file(path, content) ==
    IF content = Unreadable THEN [raised |-> FALSE, results |-> <<>>]
    ELSE LET found == _find_calls(content, content, <<>>) IN
         IF found.raised THEN [raised |-> TRUE, results |-> <<>>]
         ELSE [raised |-> FALSE, results |-> SetFile(found.results, path)]

-----------------------------------------------------------------------------
(* scan_directory: os.walk over the directory at dirpath, top down.  A     *)
(* directory is its name, its files (name and parsed content) and its      *)
(* subdirectories, each in the order the listing gives them.               *)

File(name, content) == [name |-> name, content |-> content]
Dir(name, files, dirs) == [name |-> name, files |-> files, dirs |-> dirs]

\* the default of scan_directory's parameter
extensions == <<".py">>

\* the names scan_directory removes from os.walk's dirs
SkipDirs == {"__pycache__", ".git", "node_modules", "venv", ".venv", "env"}

endswith(text, suffix) ==
    /\ Len(text) >= Len(suffix)
    /\ SubSeq(text, Len(text) - Len(suffix) + 1, Len(text)) = suffix

\* os.path.join of two components
path_join(root, name) ==
    IF startswith(name, "/") THEN name
    ELSE IF root = "" \/ endswith(root, "/") THEN root \o name
    ELSE root \o "/" \o name

\* os.walk(dirpath), top down: the (root, files) pairs in the order the loop
\* of scan_directory sees them, a directory the loop removed from dirs not
\* being descended into
RECURSIVE os_walk(_, _)
RECURSIVE WalkDirs(_, _, _)

os_walk(root, dir) ==
    LET Kept(d) == d.name \notin SkipDirs IN
    <<[root |-> root, files |-> dir.files]>>
        \o WalkDirs(root, SelectSeq(dir.dirs, Kept), 1)

WalkDirs(root, dirs, i) ==
    IF i > Len(dirs) THEN <<>>
    ELSE os_walk(path_join(root, dirs[i].name), dirs[i])
             \o WalkDirs(root, dirs, i + 1)

\* the files the loop hands to scan_file, as path and content, in its order
RECURSIVE Matching(_, _, _)
Matching(root, files, i) ==
    IF i > Len(files) THEN <<>>
    ELSE IF \E e \in Range(extensions) : endswith(files[i].name, e)
         THEN <<[path |-> path_join(root, files[i].name),
                 content |-> files[i].content]>> \o Matching(root, files, i + 1)
    ELSE Matching(root, files, i + 1)

RECURSIVE ToScan(_, _)
ToScan(steps, i) ==
    IF i > Len(steps) THEN <<>>
    ELSE Matching(steps[i].root, steps[i].files, 1) \o ToScan(steps, i + 1)

\* the scan_file calls made, each with what it returned; a call that raises
\* is the last (the exception leaves the loop)
RECURSIVE ScanEach(_, _)
ScanEach(files, i) ==
    IF i > Len(files) THEN <<>>
    ELSE LET out == scan_file(files[i].path, files[i].content) IN
         IF out.raised
         THEN <<[path |-> files[i].path, raised |-> TRUE, results |-> <<>>]>>
         ELSE <<[path |-> files[i].path, raised |-> FALSE, results |-> out.results]>>
                  \o ScanEach(files, i + 1)

\* all_results.extend(results), call after call
RECURSIVE ResultsOf(_)
ResultsOf(calls) ==
    IF calls = <<>> THEN <<>>
    ELSE calls[1].results \o ResultsOf(Tail(calls))

AllResults(calls) ==
    IF calls # <<>> /\ calls[Len(calls)].raised
    THEN [raised |-> TRUE, results |-> <<>>, scanned |-> calls]
    ELSE [raised |-> FALSE, results |-> ResultsOf(calls), scanned |-> calls]

scan_directory(path, dir) ==
    AllResults(ScanEach(ToScan(os_walk(path, dir), 1), 1))

-----------------------------------------------------------------------------
(* generate_cbom: one asset record for each finding, in the findings'      *)
(* order, each with the single occurrence of that finding.  (The optional  *)
(* output_path only writes the returned value to a file.)                  *)

\* str() of an int
RECURSIVE IntToStr(_)
IntToStr(n) ==
    IF n < 0 THEN "-" \o IntToStr(0 - n)
    ELSE IF n < 10 THEN Digits[n + 1]
    ELSE IntToStr(n \div 10) \o Digits[(n % 10) + 1]

\* str() of an int, a str or None
str(v) ==
    IF v.pytype = "int" THEN IntToStr(v.i)
    ELSE IF v.pytype = "str" THEN v.s
    ELSE "None"

Occurrence(f) ==
    [location |-> f.file, line |-> f.line, context |-> f.context]

Asset(f) ==
    [type        |-> "algorithm",
     name        |-> f.algo,
     occurrences |-> <<Occurrence(f)>>,
     properties  |-> << [name |-> "keySize",     value |-> str(f.bits)],
                        [name |-> "method",      value |-> f.method],
                        [name |-> "quantumRisk", value |-> f.risk] >>]

CycloneDX(assets) ==
    [bomFormat    |-> "CycloneDX",
     specVersion  |-> "1.6",
     version      |-> 1,
     metadata     |-> [tool |-> [vendor  |-> "Sentinel-PQC",
                                 name    |-> "Cryptographic Scanner",
                                 version |-> "1.0.0"]],
     cryptoAssets |-> assets]

\* variant: a finding of the same algorithm as the asset before it is added
\* to that asset as one more occurrence
RECURSIVE GroupByAlgorithm(_, _, _)
GroupByAlgorithm(findings, i, assets) ==
    IF i > Len(findings) THEN assets
    ELSE LET f == findings[i]
             n == Len(assets)
         IN  IF n > 0 /\ assets[n].name = f.algo
             THEN GroupByAlgorithm(findings, i + 1,
                      [assets EXCEPT ![n].occurrences = Append(@, Occurrence(f))])
             ELSE GroupByAlgorithm(findings, i + 1, Append(assets, Asset(f)))

generate_cbom_grouped(findings) ==
    CycloneDX(GroupByAlgorithm(findings, 1, <<>>))

generate_cbom(findings) ==
    CycloneDX([i \in DOMAIN findings |-> Asset(findings[i])])

-----------------------------------------------------------------------------
(* Remediator (src/remediator.py): the rule table and the fix lookup.      *)

PyNone == [pytype |-> "NoneType", i |-> 0, s |-> ""]

LowerChar(c) ==
    IF \E i \in DOMAIN Upper : Upper[i] = c
    THEN Lower[CHOOSE i \in DOMAIN Upper : Upper[i] = c]
    ELSE c

RECURSIVE lower(_)
lower(s) ==
    IF s = "" THEN ""
    ELSE LowerChar(SubSeq(s, 1, 1)) \o lower(SubSeq(s, 2, Len(s)))

Rule(algo, method, bits, text, reason, nist_ref) ==
    [key |-> <<algo, method, bits>>,
     fix |-> text, reason |-> reason, nist_ref |-> nist_ref]

STANDARD_FIXES ==
    << Rule("RSA", "generate", PyInt(1024),
            "RSA.generate(4096)",
            "RSA-1024 is cryptographically weak. Upgrade to 4096 bits for crypto-agility.",
            "NIST SP 800-131A Rev.2"),
       Rule("RSA", "generate", PyInt(2048),
            "RSA.generate(4096)",
            "RSA-2048 is quantum-vulnerable. Upgrade to 4096 bits as interim measure.",
            "CNSA 2.0 (2025 deadline)"),
       Rule("DSA", "generate", PyInt(1024),
            "# CRITICAL: Migrate to Ed25519 or ML-DSA\n# from cryptography.hazmat.primitives.asymmetric.ed25519 import Ed25519PrivateKey\n# key = Ed25519PrivateKey.generate()",
            "DSA-1024 is deprecated. Migrate to Edwards curves or ML-DSA (Dilithium).",
            "FIPS 186-5"),
       Rule("DSA", "generate", PyInt(2048),
            "# WARNING: Plan migration to ML-DSA (Dilithium)\n# DSA is quantum-vulnerable regardless of key size",
            "DSA is vulnerable to Shor's algorithm. Plan PQC migration.",
            "NIST PQC Standards"),
       Rule("AES", "new", PyNone,
            "AES.new(key, AES.MODE_GCM, nonce=nonce)",
            "Ensure authenticated encryption. Use GCM mode for integrity protection.",
            "NIST SP 800-38D"),
       Rule("DES", "new", PyNone,
            "# CRITICAL: Replace DES with AES-256-GCM\nfrom Crypto.Cipher import AES\ncipher = AES.new(key_256, AES.MODE_GCM)",
            "DES is completely broken. Replace with AES-256 immediately.",
            "NIST SP 800-131A"),
       Rule("DES3", "new", PyNone,
            "# CRITICAL: Replace 3DES with AES-256-GCM\nfrom Crypto.Cipher import AES\ncipher = AES.new(key_256, AES.MODE_GCM)",
            "3DES is deprecated. Replace with AES-256.",
            "NIST SP 800-131A") >>

\* dict lookup in STANDARD_FIXES: the rule of that key, or NoRule (None)
NoRule == [key |-> <<"", "", PyNone>>, fix |-> "", reason |-> "", nist_ref |-> ""]

HasRule(key) == \E i \in DOMAIN STANDARD_FIXES : STANDARD_FIXES[i].key = key

RuleOf(key) ==
    STANDARD_FIXES[CHOOSE i \in DOMAIN STANDARD_FIXES : STANDARD_FIXES[i].key = key]

\* variant: only the exact key is looked up
get_standard_fix_exact(algo, method, bits) ==
    LET key == <<upper(algo), lower(method), bits>> IN
    IF HasRule(key) THEN RuleOf(key) ELSE NoRule

get_standard_fix(algo, method, bits) ==
    LET key         == <<upper(algo), lower(method), bits>>
        key_general == <<upper(algo), lower(method), PyNone>>
    IN  IF HasRule(key) THEN RuleOf(key)
        ELSE IF HasRule(key_general) THEN RuleOf(key_general)
        ELSE NoRule

PQC_MIGRATIONS(algo) ==
    CASE algo = "RSA"   -> "ML-KEM (Kyber) for key exchange, ML-DSA (Dilithium) for signatures"
      [] algo = "DSA"   -> "ML-DSA (Dilithium) or SLH-DSA (SPHINCS+)"
      [] algo = "ECDSA" -> "ML-DSA (Dilithium) for signatures"
      [] algo = "ECDH"  -> "ML-KEM (Kyber) for key exchange"
      [] algo = "DH"    -> "ML-KEM (Kyber) for key exchange"
      [] OTHER          -> "Consult NIST PQC standards"

ask_llm_for_fix(code_snippet, f) ==
    "# AI-GENERATED FIX (Placeholder)\n"
    \o "# TODO: Implement actual LLM call for intelligent fix generation\n"
    \o "# \n"
    \o "# For " \o f.algo \o ", consider migrating to:\n"
    \o "# " \o PQC_MIGRATIONS(f.algo) \o "\n"
    \o "#\n"
    \o "# This is a placeholder. In production:\n"
    \o "# 1. Call OpenAI/Gemini API with the code context\n"
    \o "# 2. Request a secure replacement following NIST guidelines\n"
    \o "# 3. Validate the generated code before applying\n"

generate_fix(f, context) ==
    LET algo   == f.algo
        method == f.method
        bits   == IF f.bits.pytype = "str"
                  THEN LET parsed == int(f.bits.s) IN
                       IF parsed.ok THEN PyInt(parsed.val) ELSE PyNone
                  ELSE f.bits
        standard == get_standard_fix(algo, method, bits)
    IN  IF standard # NoRule
        THEN [fix        |-> standard.fix,
              reason     |-> standard.reason,
              reference  |-> standard.nist_ref,
              source     |-> "RULE_ENGINE",
              confidence |-> "HIGH"]
        ELSE [fix        |-> ask_llm_for_fix(context.full, f),
              reason     |-> "No standard fix available for " \o algo \o "."
                             \o method \o ". AI-generated suggestion.",
              reference  |-> "NIST PQC Standards",
              source     |-> "LLM_SKELETON",
              confidence |-> "REVIEW_REQUIRED"]

-----------------------------------------------------------------------------
(* Bounds of the input sets.                                               *)

MaxCallArgs == 2   \* arguments of the call in a one-call file
MaxArgs     == 2   \* arguments handed to _extract_key_size on its own
MaxDepth    == 1   \* nesting of calls inside calls
MaxStmts    == 2   \* statements of a several-statement file
MaxBits     == 4200 \* largest key size handed to _calculate_risk on its own
MaxFiles    == 2   \* files listed in one directory

-----------------------------------------------------------------------------
(* Input files.                                                            *)

RECURSIVE SeqsUpTo(_, _)
SeqsUpTo(S, n) ==
    IF n = 0 THEN {<<>>}
    ELSE LET shorter == SeqsUpTo(S, n - 1) IN
         shorter \cup {Append(q, e) : q \in {t \in shorter : Len(t) = n - 1}, e \in S}

AliasNames  == UNION {Range(TARGETS[i].aliases) : i \in DOMAIN TARGETS}
MethodNames == UNION {Range(TARGETS[i].methods) : i \in DOMAIN TARGETS}

\* receivers of a one-call file: every alias, an unrelated module, a dotted
\* name and the result of a call
Receivers(row) ==
    {Identifier(n, row) : n \in AliasNames \cup {"random"}}
    \cup {Attribute(Identifier("Crypto", row), "RSA"),
          Call(Identifier("get_cipher", row), ArgumentList(<<>>, row))}

Methods == MethodNames \cup {"randint"}

\* a string literal of more than 100 characters
LongLiteral ==
    "\"-----BEGIN PUBLIC KEY-----MIIBIjANBgkqhkiG9w0BAQEFAAOCAQ8AMIIBCgKCAQEAu1SU1LfVLPHCozMxH2Mo4lgOEePzNm0t-----END PUBLIC KEY-----\""

ScanArgs(row) ==
    {Integer("1024", row), Integer("0x10", row),
     Identifier("key", row), String(LongLiteral, row),
     KeywordArgument("key", String("b'Sixteen byte key'", row)),
     KeywordArgument("bits", Integer("2048", row))}

OneCalls(row) ==
    {Call(Attribute(r, m), ArgumentList(a, row)) :
        r \in Receivers(row), m \in Methods,
        a \in SeqsUpTo(ScanArgs(row), MaxCallArgs)}
    \cup {CallNoArgs(Attribute(r, m)) : r \in Receivers(row), m \in Methods}

OneCallFiles == {Module(<<ExpressionStatement(c)>>) : c \in OneCalls(0)}

\* call expressions that match, that do not, and one whose argument int()
\* rejects
BaseCalls(row) ==
    {Call(Attribute(Identifier("RSA", row), "generate"),
          ArgumentList(<<Integer("1024", row)>>, row)),
     Call(Attribute(Identifier("AES", row), "new"),
          ArgumentList(<<Identifier("key", row)>>, row)),
     Call(Attribute(Identifier("random", row), "randint"),
          ArgumentList(<<Integer("1", row), Integer("100", row)>>, row)),
     Call(Identifier("generate", row),
          ArgumentList(<<Integer("2048", row)>>, row)),
     Call(Attribute(Attribute(Identifier("Crypto", row), "RSA"), "generate"),
          ArgumentList(<<Integer("1024", row)>>, row)),
     Call(Attribute(Identifier("RSA", row), "new"),
          ArgumentList(<<Integer("1024", row)>>, row)),
     Call(Attribute(Identifier("DSA", row), "generate"),
          ArgumentList(<<Integer("0x800", row)>>, row))}

\* a call as an argument of another call, or as the receiver of one
RECURSIVE NestedCalls(_, _)
NestedCalls(d, row) ==
    IF d = 0 THEN BaseCalls(row)
    ELSE LET inner == NestedCalls(d - 1, row) IN
         inner
         \cup {Call(Attribute(Identifier("DSA", row), "construct"),
                    ArgumentList(<<e>>, row)) : e \in inner}
         \cup {Call(Identifier("print", row),
                    ArgumentList(<<e, Integer("2048", row)>>, row)) : e \in inner}
         \cup {Call(Attribute(e, "generate"),
                    ArgumentList(<<Integer("4096", row)>>, row)) : e \in inner}

\* text that looks like a call and is none
NonCalls(row) ==
    {ExpressionStatement(String("\"RSA.generate(1024)\"", row)),
     Comment("# ec.generate_private_key(2048)", row)}

NestedFiles ==
    {Module(<<ExpressionStatement(c)>>) : c \in NestedCalls(MaxDepth, 0)}
    \cup {Module(<<FunctionDefinition("generate_report",
                      Block(<<ExpressionStatement(c)>>, 1), 0)>>) :
              c \in NestedCalls(MaxDepth, 1)}

BaseStmts(row) ==
    {ExpressionStatement(c) : c \in BaseCalls(row)} \cup NonCalls(row)

\* files of several statements, statement i on line i
RECURSIVE StmtSeqs(_)
StmtSeqs(n) ==
    IF n = 0 THEN {<<>>}
    ELSE LET shorter == StmtSeqs(n - 1) IN
         shorter \cup {Append(q, st) : q \in {t \in shorter : Len(t) = n - 1},
                                        st \in BaseStmts(n - 1)}

SeveralFiles == {Module(q) : q \in StmtSeqs(MaxStmts)}

AssignStmt(name, value) == ExpressionStatement(Assignment(name, value))

\* weak = RSA.generate(1024)
\* strong = AES.new(b'<32 bytes>', MODE)
EndToEndFile ==
    Module(<<
        AssignStmt("weak",
            Call(Attribute(Identifier("RSA", 0), "generate"),
                 ArgumentList(<<Integer("1024", 0)>>, 0))),
        AssignStmt("strong",
            Call(Attribute(Identifier("AES", 1), "new"),
                 ArgumentList(<<String("b'32_byte_key_..................32'", 1),
                                Identifier("MODE", 1)>>, 1))) >>)

ImportFrom(mod, name, row) ==
    Node("import_from_statement", "from " \o mod \o " import " \o name, row,
         <<Token("from", row), Node("dotted_name", mod, row, <<>>, <<>>),
           Token("import", row), Node("dotted_name", name, row, <<>>, <<>>)>>,
         <<"", "module_name", "", "name">>)

GenerateCall(recv, args, row) ==
    Call(Attribute(Identifier(recv, row), "generate"), ArgumentList(args, row))

AesNew(keyName, row) ==
    Call(Attribute(Identifier("AES", row), "new"),
         ArgumentList(<<Identifier(keyName, row),
                        Attribute(Identifier("AES", row), "MODE_GCM")>>, row))

\* src/test_samples/vulnerable.py, statement by statement (row = line - 1)
SampleFile ==
    Module(<<
        ExpressionStatement(String("\"\"\"Test Sample: Vulnerable Cryptographic Patterns\"\"\"", 0)),
        Comment("# Standard imports - the scanner should detect these", 10),
        ImportFrom("Crypto.PublicKey", "RSA", 11),
        ImportFrom("Crypto.Cipher", "AES", 12),
        ImportFrom("Crypto.PublicKey", "DSA", 13),
        ImportFrom("Crypto.PublicKey", "RSA as PyRSA", 16),
        Comment("# CRITICAL: RSA-1024 is factorable with modern classical computers", 23),
        AssignStmt("weak_rsa_key", GenerateCall("RSA", <<Integer("1024", 24)>>, 24)),
        Comment("# HIGH: RSA-2048 is secure classically but vulnerable to Shor's algorithm", 26),
        AssignStmt("standard_rsa_key", GenerateCall("RSA", <<Integer("2048", 27)>>, 27)),
        Comment("# HIGH: Using keyword argument (scanner must handle this!)", 29),
        AssignStmt("rsa_with_kwargs",
            GenerateCall("RSA", <<KeywordArgument("bits", Integer("2048", 30)),
                                  KeywordArgument("e", Integer("65537", 30))>>, 30)),
        Comment("# MEDIUM: RSA-4096 is still quantum-vulnerable but has larger margin", 32),
        AssignStmt("strong_rsa_key", GenerateCall("RSA", <<Integer("4096", 33)>>, 33)),
        Comment("# Test with alias - should still be detected as RSA", 35),
        AssignStmt("aliased_rsa", GenerateCall("PyRSA", <<Integer("1024", 36)>>, 36)),
        Comment("# rsa_exponent_first = RSA.generate(65537, 2048)  # Commented - invalid", 40),
        Comment("# MEDIUM: AES-128 has reduced security under Grover's attack (64-bit effective)", 47),
        AssignStmt("key_128", String("b'Sixteen byte key'", 48)),
        AssignStmt("aes_128", AesNew("key_128", 49)),
        Comment("# LOW: AES-256 maintains 128-bit security post-quantum", 51),
        AssignStmt("key_256", String("b'This is a 32 byte key for AES!!'", 52)),
        AssignStmt("aes_256", AesNew("key_256", 53)),
        Comment("# CRITICAL: DSA-1024 is deprecated", 60),
        AssignStmt("weak_dsa", GenerateCall("DSA", <<Integer("1024", 61)>>, 61)),
        Comment("# HIGH: DSA-2048 still vulnerable to Shor's algorithm", 63),
        AssignStmt("dsa_key",
            GenerateCall("DSA", <<KeywordArgument("bits", Integer("2048", 64))>>, 64)),
        Comment("# ecc_key = ec.generate_private_key(ec.SECP256R1())", 73),
        Node("import_statement", "import random", 81,
             <<Token("import", 81), Node("dotted_name", "random", 81, <<>>, <<>>)>>,
             <<"", "name">>),
        AssignStmt("random_number",
            Call(Attribute(Identifier("random", 82), "randint"),
                 ArgumentList(<<Integer("1", 82), Integer("100", 82)>>, 82))),
        AssignStmt("rsa_description", String("\"RSA is an asymmetric algorithm\"", 85)),
        FunctionDefinition("generate_report",
            Block(<<ExpressionStatement(String("\"\"\"Function name contains 'generate' but isn't crypto.\"\"\"", 89)),
                    Node("return_statement", "return {\"status\": \"safe\"}", 90,
                         <<Token("return", 90),
                           Node("dictionary", "{\"status\": \"safe\"}", 90, <<>>, <<>>)>>,
                         <<"", "">>)>>, 89), 88) >>)

\* the files on disk: path and parsed content
FileSystem ==
    {<<"keys.py", f>> : f \in OneCallFiles}
    \cup {<<"./pkg/../app.py", f>> : f \in NestedFiles \cup SeveralFiles}
    \cup {<<"e2e.py", EndToEndFile>>,
          <<"src/test_samples/vulnerable.py", SampleFile>>,
          <<"missing.py", Unreadable>>}

-----------------------------------------------------------------------------
(* Inputs of _extract_key_size and _calculate_risk taken on their own.     *)

ExtractArgs ==
    {Integer("1024", 0), Integer("2048", 0), Integer("64", 0),
     Integer("65537", 0), Integer("0x800", 0), Integer("0x10", 0),
     Identifier("key", 0), String("b'Sixteen byte key'", 0),
     KeywordArgument("bits", Integer("2048", 0)),
     KeywordArgument("bits", Integer("65537", 0)),
     KeywordArgument("bits", Integer("0x800", 0)),
     KeywordArgument("bits", Identifier("n", 0)),
     KeywordArgument("e", Integer("65537", 0)),
     KeywordArgument("e", Integer("0x10001", 0)),
     KeywordArgument("size", Integer("512", 0)),
     KeywordArgument("key", String("b'Sixteen byte key'", 0)),
     KeywordArgument("key", String("'This is a 32 byte key for AES!!!'", 0)),
     KeywordArgument("key", String("B'Sixteen byte key'", 0)),
     KeywordArgument("key", String("b''", 0)),
     KeywordArgument("curve", String("\"P-256\"", 0))}

ExtractArgLists ==
    {ArgumentList(a, 0) : a \in SeqsUpTo(ExtractArgs, MaxArgs)} \cup {NoNode}

ArgKeySets == {TARGETS[i].arg_keys : i \in DOMAIN TARGETS}

RiskAlgos == {TARGETS[i].name : i \in DOMAIN TARGETS}
             \cup {"rsa", "ECDSA", "3DES", "TripleDES", "Kyber"}

-----------------------------------------------------------------------------
(* Directories handed to scan_directory.                                   *)

\* a = RSA.generate(1024)
\* b = RSA.generate(bits=2048)
\* AES.new(key, "<long literal>")
KeysFile ==
    Module(<<
        AssignStmt("a", GenerateCall("RSA", <<Integer("1024", 0)>>, 0)),
        AssignStmt("b", GenerateCall("RSA",
                            <<KeywordArgument("bits", Integer("2048", 1))>>, 1)),
        ExpressionStatement(
            Call(Attribute(Identifier("AES", 2), "new"),
                 ArgumentList(<<Identifier("key", 2), String(LongLiteral, 2)>>, 2))) >>)

\* k = RSA.generate(0x10)
HexFile ==
    Module(<<AssignStmt("k", GenerateCall("RSA", <<Integer("0x10", 0)>>, 0))>>)

DirFiles ==
    {File("keys.py", KeysFile), File("hex.py", HexFile),
     File("gone.py", Unreadable), File("notes.txt", KeysFile)}

\* the file listings of one directory: no name twice
FileLists ==
    {l \in SeqsUpTo(DirFiles, MaxFiles) :
        \A i, j \in DOMAIN l : l[i].name = l[j].name => i = j}

\* directory names leading from the root to an inner directory
DirChains ==
    {<<"pkg">>, <<"envs">>, <<"node_modules">>, <<".git">>, <<"__pycache__">>,
     <<"venv">>, <<".venv">>, <<"env">>,
     <<"pkg", "node_modules">>, <<"node_modules", "pkg">>}

RECURSIVE Chain(_, _)
Chain(names, files) ==
    IF Len(names) = 1 THEN Dir(names[1], files, <<>>)
    ELSE Dir(names[1], <<>>, <<Chain(Tail(names), files)>>)

LibDir == Dir("lib", <<File("keys.py", KeysFile)>>, <<>>)

\* a root with its own files, one chain of directories with a file at its
\* end and, listed after it or not at all, the directory lib
Trees ==
    {Dir("proj", f0, <<>>) : f0 \in FileLists}
    \cup {Dir("proj", f0, <<Chain(c, <<f1>>)>> \o after) :
             f0 \in FileLists, c \in DirChains, f1 \in DirFiles,
             after \in {<<>>, <<LibDir>>}}

\* a few directories and files for runs that mix the operations
FewTrees ==
    {Dir("proj", <<>>, <<>>),
     Dir("proj", <<File("keys.py", KeysFile)>>, <<LibDir>>),
     Dir("proj", <<File("gone.py", Unreadable)>>,
         <<Chain(<<"node_modules">>, <<File("keys.py", KeysFile)>>), LibDir>>),
     Dir("proj", <<File("keys.py", KeysFile), File("hex.py", HexFile)>>, <<>>)}

FewFiles ==
    {<<"e2e.py", EndToEndFile>>, <<"./proj/keys.py", KeysFile>>,
     <<"proj/hex.py", HexFile>>, <<"missing.py", Unreadable>>,
     <<"src/test_samples/vulnerable.py", SampleFile>>}

-----------------------------------------------------------------------------
(* Catalogs handed to the construction of the scanner: the scanner's own,  *)
(* and the same with one alias listed a second time, under another entry.  *)

WithAlias(targets, i, alias) ==
    [targets EXCEPT ![i].aliases = Append(@, alias)]

OtherAliases(i) == AliasNames \ Range(TARGETS[i].aliases)

Catalogs ==
    {TARGETS}
    \cup UNION {{WithAlias(TARGETS, i, a) : a \in OtherAliases(i)} :
                   i \in DOMAIN TARGETS}

-----------------------------------------------------------------------------
(* Findings handed to generate_fix: as the scanner writes them, and as     *)
(* they come back from a JSON file (key size as text or absent).           *)

FixFindings ==
    {[file |-> "app.py", line |-> 1, algo |-> a, method |-> m, bits |-> b,
      risk |-> "HIGH", context |-> a \o "." \o m \o "()"] :
        a \in {"RSA", "DSA", "AES", "EC", "DES", "DES3", "ECDSA"},
        m \in MethodNames,
        b \in {PyInt(1024), PyInt(2048), PyInt(4096),
               PyStr("Unknown"), PyStr("1024"), PyNone}}

\* extract_context's result for the finding's line
FixContext == [full |-> "   1 >> key = make_key()"]

-----------------------------------------------------------------------------
(* State machine.                                                          *)

NotCalled == [called |-> FALSE, raised |-> FALSE, value |-> 0]
NoCbom    == [called |-> FALSE, value |-> CycloneDX(<<>>)]
NoFix     == [fix |-> "", reason |-> "", reference |-> "", source |-> "",
              confidence |-> ""]
NoFinding == [file |-> "", line |-> 0, algo |-> "", method |-> "",
              bits |-> PyNone, risk |-> "", context |-> ""]

\* PQCScanner() constructed
InitScanner ==
    /\ catalog = TARGETS
    /\ _alias_map = BuildAliasMap(catalog, 1, 1, EmptyMap)
    /\ constructed = "yes"

IdleScan    == /\ filepath = "missing.py" /\ source = Unreadable
               /\ pc = "ready" /\ results = <<>> /\ raised = FALSE
IdleDir     == /\ dirpath = "" /\ dirtree = Dir("", <<>>, <<>>)
               /\ d_pc = "ready" /\ all_results = <<>> /\ d_raised = FALSE
               /\ scanned = <<>>
IdleCbom    == cbom = NoCbom
IdleFix     == finding = NoFinding /\ fix = NoFix
IdleExtract == x_args = NoNode /\ x_keys = <<>> /\ x_out = NotCalled
IdleRisk    == r_algo = "" /\ r_bits = 0 /\ r_out = ""

\* PQCScanner() constructed, one file of the file system chosen for scanning
Init ==
    /\ InitScanner
    /\ \E f \in FileSystem : filepath = f[1] /\ source = f[2]
    /\ pc = "ready" /\ results = <<>> /\ raised = FALSE
    /\ IdleDir /\ IdleCbom /\ IdleFix /\ IdleExtract /\ IdleRisk

\* scanner.scan_file(filepath)
ScanFile ==
    /\ LET out == scan_file(filepath, source) IN
           /\ results' = out.results
           /\ raised' = out.raised
    /\ pc' = "done"
    /\ UNCHANGED <<scannerVars, source, filepath, dirVars, cbom, fixVars,
                   extractVars, riskVars>>

Next == ScanFile

Spec == Init /\ [][Next]_vars

\* scanner.scan_file(filepath) once more, the file unchanged
Rescan ==
    /\ pc # "ready"
    /\ LET out == scan_file(filepath, source) IN
           /\ results' = out.results
           /\ raised' = out.raised
    /\ pc' = "again"
    /\ UNCHANGED <<scannerVars, source, filepath, dirVars, cbom, fixVars,
                   extractVars, riskVars>>

\* scanner.scan_directory(dirpath)
ScanDirectory ==
    /\ \E out \in {scan_directory(dirpath, dirtree)} :
           /\ all_results' = out.results
           /\ d_raised' = out.raised
           /\ scanned' = out.scanned
    /\ d_pc' = "done"
    /\ UNCHANGED <<scannerVars, scanVars, dirpath, dirtree, cbom, fixVars,
                   extractVars, riskVars>>

\* scanner.generate_cbom(findings) on the list scan_directory returned
GenerateCbom ==
    /\ d_pc = "done" /\ ~d_raised
    /\ cbom' = [called |-> TRUE, value |-> generate_cbom(all_results)]
    /\ UNCHANGED <<scannerVars, scanVars, dirVars, fixVars, extractVars, riskVars>>

\* scanner.generate_cbom(findings) on the list scan_file returned
GenerateCbomOfFile ==
    /\ pc # "ready" /\ ~raised
    /\ cbom' = [called |-> TRUE, value |-> generate_cbom(results)]
    /\ UNCHANGED <<scannerVars, scanVars, dirVars, fixVars, extractVars, riskVars>>

\* a directory scan, and the export of what it returned
InitDir ==
    /\ InitScanner /\ IdleScan /\ IdleCbom /\ IdleFix /\ IdleExtract /\ IdleRisk
    /\ dirpath = "./proj"
    /\ dirtree \in Trees
    /\ d_pc = "ready" /\ all_results = <<>> /\ d_raised = FALSE /\ scanned = <<>>

NextDir == ScanDirectory \/ GenerateCbom

SpecDir == InitDir /\ [][NextDir]_vars

\* scan(path): the path names a file, which scan_file scans, or a directory,
\* which scan_directory scans
isdir  == dirpath # ""
isfile == ~isdir

InitScan == Init \/ InitDir

NextScan ==
    \/ isfile /\ ScanFile
    \/ isdir /\ ScanDirectory

SpecScan == InitScan /\ [][NextScan]_vars

\* one scanner used for file scans, directory scans and exports in any order
InitMixed ==
    /\ InitScanner /\ IdleCbom /\ IdleFix /\ IdleExtract /\ IdleRisk
    /\ \E f \in FewFiles : filepath = f[1] /\ source = f[2]
    /\ pc = "ready" /\ results = <<>> /\ raised = FALSE
    /\ dirpath = "./proj"
    /\ dirtree \in FewTrees
    /\ d_pc = "ready" /\ all_results = <<>> /\ d_raised = FALSE /\ scanned = <<>>

NextMixed ==
    \/ ScanFile
    \/ Rescan
    \/ ScanDirectory
    \/ GenerateCbom
    \/ GenerateCbomOfFile

SpecMixed == InitMixed /\ [][NextMixed]_vars

\* PQCScanner.__init__ on a catalog: the alias map is built, nothing is checked
InitConstruct ==
    /\ catalog \in Catalogs
    /\ _alias_map = EmptyMap
    /\ constructed = "no"
    /\ IdleScan /\ IdleDir /\ IdleCbom /\ IdleFix /\ IdleExtract /\ IdleRisk

Construct ==
    /\ constructed = "no"
    /\ _alias_map' = BuildAliasMap(catalog, 1, 1, EmptyMap)
    /\ constructed' = "yes"
    /\ UNCHANGED <<catalog, scanVars, dirVars, cbom, fixVars, extractVars, riskVars>>

NextConstruct == Construct

SpecConstruct == InitConstruct /\ [][NextConstruct]_vars

\* generate_fix on a finding
InitFix ==
    /\ InitScanner /\ IdleScan /\ IdleDir /\ IdleCbom /\ IdleExtract /\ IdleRisk
    /\ finding \in FixFindings
    /\ fix = NoFix

GenerateFix ==
    /\ fix' = generate_fix(finding, FixContext)
    /\ UNCHANGED <<scannerVars, scanVars, dirVars, cbom, finding,
                   extractVars, riskVars>>

NextFix == GenerateFix

SpecFix == InitFix /\ [][NextFix]_vars

\* _extract_key_size on an argument list and an entry's arg_keys
InitExtract ==
    /\ InitScanner /\ IdleScan /\ IdleDir /\ IdleCbom /\ IdleFix /\ IdleRisk
    /\ x_args \in ExtractArgLists
    /\ x_keys \in ArgKeySets
    /\ x_out = NotCalled

ExtractKeySize ==
    /\ LET out == _extract_key_size(x_args, x_keys) IN
           x_out' = [called |-> TRUE, raised |-> out.raised, value |-> out.value]
    /\ UNCHANGED <<scannerVars, scanVars, dirVars, cbom, fixVars,
                   x_args, x_keys, riskVars>>

NextExtract == ExtractKeySize

SpecExtract == InitExtract /\ [][NextExtract]_vars

\* _calculate_risk on an algorithm name and a key size
InitRisk ==
    /\ InitScanner /\ IdleScan /\ IdleDir /\ IdleCbom /\ IdleFix /\ IdleExtract
    /\ r_algo \in RiskAlgos
    /\ r_bits \in 0..MaxBits
    /\ r_out = ""

CalculateRisk ==
    /\ r_out' = _calculate_risk(r_algo, r_bits)
    /\ UNCHANGED <<scannerVars, scanVars, dirVars, cbom, fixVars,
                   extractVars, r_algo, r_bits>>

NextRisk == CalculateRisk

SpecRisk == InitRisk /\ [][NextRisk]_vars

-----------------------------------------------------------------------------
(* Properties.                                                             *)

Unknown == PyStr("Unknown")

\* what a finding says, apart from its file and context
Essence(f) == <<f.algo, f.bits, f.risk, f.line>>

RECURSIVE MapSeq(_, _)
MapSeq(Op(_), seq) ==
    IF seq = <<>> THEN <<>> ELSE <<Op(seq[1])>> \o MapSeq(Op, Tail(seq))

\* C1: scanning `weak = RSA.generate(1024)` followed by
\* `strong = AES.new(<32-byte byte literal>, MODE)` returns exactly two
\* findings, in that order: (RSA, 1024, CRITICAL, line 1) and
\* (AES, 256, LOW, line 2).
C1_EndToEnd ==
    (pc = "done" /\ source = EndToEndFile) =>
        /\ ~raised
        /\ MapSeq(Essence, results) =
              << <<"RSA", PyInt(1024), "CRITICAL", 1>>,
                 <<"AES", PyInt(256), "LOW", 2>> >>

Annotated(f) == <<f.context, f.algo, f.risk>>

\* C2: scanning the annotated sample file returns each annotated call site
\* with the risk its annotation states, in file order, and nothing else.
C2_SampleAnnotations ==
    (pc = "done" /\ source = SampleFile) =>
        /\ ~raised
        /\ MapSeq(Annotated, results) =
              << <<"RSA.generate(1024)", "RSA", "CRITICAL">>,
                 <<"RSA.generate(2048)", "RSA", "HIGH">>,
                 <<"RSA.generate(bits=2048, e=65537)", "RSA", "HIGH">>,
                 <<"RSA.generate(4096)", "RSA", "MEDIUM">>,
                 <<"PyRSA.generate(1024)", "RSA", "CRITICAL">>,
                 <<"AES.new(key_128, AES.MODE_GCM)", "AES", "MEDIUM">>,
                 <<"AES.new(key_256, AES.MODE_GCM)", "AES", "LOW">>,
                 <<"DSA.generate(1024)", "DSA", "CRITICAL">>,
                 <<"DSA.generate(bits=2048)", "DSA", "HIGH">> >>

\* C3: for RSA or DSA and a nonzero key size b the classifier returns
\* CRITICAL when b < 2048, HIGH when 2048 <= b < 4096 and MEDIUM when
\* b >= 4096; never LOW; 512 and 1024 are CRITICAL.
C3_RsaDsaTiers ==
    (r_out # "" /\ r_algo \in {"RSA", "DSA"} /\ r_bits # 0) =>
        /\ r_bits < 2048 => r_out = "CRITICAL"
        /\ (2048 <= r_bits /\ r_bits < 4096) => r_out = "HIGH"
        /\ r_bits >= 4096 => r_out = "MEDIUM"
        /\ r_out # "LOW"
        /\ r_bits \in {512, 1024} => r_out = "CRITICAL"

C3_Witness ==
    r_algo = "DSA" /\ r_bits = 2048 /\ r_out = "HIGH"

\* C4: for AES the classifier returns MEDIUM for 128, LOW for 192 or 256
\* and UNKNOWN for every other key size; never CRITICAL or HIGH.
C4_AesTiers ==
    (r_out # "" /\ r_algo = "AES") =>
        /\ r_bits = 128 => r_out = "MEDIUM"
        /\ r_bits \in {192, 256} => r_out = "LOW"
        /\ r_bits \notin {128, 192, 256} => r_out = "UNKNOWN"
        /\ r_out \notin {"CRITICAL", "HIGH"}

C4_Witness ==
    r_algo = "AES" /\ r_bits = 512 /\ r_out = "UNKNOWN"

\* C5 as stated: every DES-family finding has risk CRITICAL and every
\* EC-family finding has risk HIGH, whether or not a key size was extracted.
C5_FamilyTierAlways ==
    pc = "done" =>
        \A i \in DOMAIN results :
            /\ results[i].algo = "DES" => results[i].risk = "CRITICAL"
            /\ results[i].algo = "EC" => results[i].risk = "HIGH"

\* C5 amended: a DES-family finding whose key size was extracted has risk
\* CRITICAL and an EC-family one HIGH, whatever the extracted value; a
\* finding of either family with no extracted key size has risk UNKNOWN.
C5_FamilyTierWhenExtracted ==
    pc = "done" =>
        \A i \in DOMAIN results :
            results[i].algo \in {"DES", "EC"} =>
                IF results[i].bits = Unknown
                THEN results[i].risk = "UNKNOWN"
                ELSE /\ results[i].bits.pytype = "int"
                     /\ results[i].bits.i # 0
                     /\ results[i].risk =
                            IF results[i].algo = "DES" THEN "CRITICAL" ELSE "HIGH"

C5_Witness ==
    /\ pc = "done"
    /\ \E i \in DOMAIN results :
           /\ results[i].algo = "DES"
           /\ results[i].bits = PyInt(128)
           /\ results[i].risk = "CRITICAL"
           /\ startswith(results[i].context, "TripleDES.new(")

-----------------------------------------------------------------------------
(* What the properties below say of a tree, stated without the scanner.    *)

HexDigits == <<"0","1","2","3","4","5","6","7","8","9","a","b","c","d","e","f">>

RECURSIVE HexValue(_, _, _)
HexValue(text, i, acc) ==
    IF i > Len(text) THEN acc
    ELSE HexValue(text, i + 1,
             16 * acc + (CHOOSE d \in DOMAIN HexDigits :
                             HexDigits[d] = SubSeq(text, i, i)) - 1)

\* the number an integer literal of the source denotes
LiteralValue(text) ==
    IF startswith(text, "0x") THEN HexValue(text, 3, 0) ELSE int(text).val

Qualifies(v) == v >= 128 /\ v # 65537

IsPunctuation(node) == node.type \in {"(", ",", ")"}

\* the arguments of an argument list, in order
ArgsOf(arglist) == SelectSeq(arglist.children, LAMBDA c : ~IsPunctuation(c))

\* the catalog entry that lists the alias
EntryOf(alias) ==
    TARGETS[CHOOSE i \in DOMAIN TARGETS : alias \in Range(TARGETS[i].aliases)]

\* a call `object.method(...)` whose object is an alias and whose method is
\* a trigger method of the alias's entry
IsCryptoCall(node) ==
    /\ node.type = "call"
    /\ Len(node.children) >= 1
    /\ node.children[1].type = "attribute"
    /\ LET obj    == node.children[1].children[1]
           method == node.children[1].children[3]
       IN  /\ obj.type = "identifier"
           /\ obj.text \in AliasNames
           /\ method.text \in Range(EntryOf(obj.text).methods)

ReceiverOf(call) == call.children[1].children[1].text
MethodOf(call)   == call.children[1].children[3].text

RECURSIVE PreOrder(_)
RECURSIVE PreOrderAll(_, _)
PreOrder(node) == <<node>> \o PreOrderAll(node.children, 1)
PreOrderAll(children, i) ==
    IF i > Len(children) THEN <<>>
    ELSE PreOrder(children[i]) \o PreOrderAll(children, i + 1)

CryptoCalls(tree) == SelectSeq(PreOrder(tree), IsCryptoCall)

\* an argument that satisfies an extraction rule of the entry
SatisfiesRule(arg, arg_keys) ==
    \/ arg.type = "integer" /\ Qualifies(LiteralValue(arg.text))
    \/ /\ arg.type = "keyword_argument"
       /\ arg.children[1].text \in Range(arg_keys)
       /\ arg.children[3].type \in {"integer", "string"}

Determinable(call, arg_keys) ==
    /\ Len(call.children) = 2
    /\ \E i \in DOMAIN ArgsOf(call.children[2]) :
           SatisfiesRule(ArgsOf(call.children[2])[i], arg_keys)

\* the call of a one-call file
IsOneCallFile == filepath = "keys.py"
TheCall == source.children[1].children[1]

\* C6: a matched call for which no key size can be determined (no argument
\* list, or no argument satisfying an extraction rule) still yields its
\* finding, with bits "Unknown" and risk UNKNOWN, without an error; no
\* finding has bits 0, and bits "Unknown" always goes with risk UNKNOWN.
C6_UnknownKeySize ==
    pc = "done" =>
        /\ (/\ IsOneCallFile
            /\ IsCryptoCall(TheCall)
            /\ ~Determinable(TheCall, EntryOf(ReceiverOf(TheCall)).arg_keys))
           => /\ ~raised
              /\ Len(results) = 1
              /\ results[1].bits = Unknown
              /\ results[1].risk = "UNKNOWN"
        /\ \A i \in DOMAIN results :
              /\ results[i].bits # PyInt(0)
              /\ results[i].bits = Unknown => results[i].risk = "UNKNOWN"

\* C7: the matcher returns exactly one finding for each call node of the
\* tree whose object resolves to a catalog entry and whose method is a
\* trigger of that entry, in pre-order, and nothing else.
C7_MatcherComplete ==
    (pc = "done" /\ source # Unreadable) =>
        LET calls == CryptoCalls(source) IN
        /\ ~raised
        /\ Len(results) = Len(calls)
        /\ \A i \in DOMAIN results :
              /\ results[i].line = calls[i].row + 1
              /\ results[i].algo = EntryOf(ReceiverOf(calls[i])).name
              /\ results[i].method = MethodOf(calls[i])
              /\ results[i].context =
                     SubSeq(calls[i].text, 1, Min(100, Len(calls[i].text)))

\* the call with another receiver name in place of its own
WithReceiver(call, name) ==
    LET func == Attribute(Identifier(name, call.row), MethodOf(call)) IN
    IF Len(call.children) = 2 THEN Call(func, call.children[2])
    ELSE CallNoArgs(func)

\* what follows the receiver in the text of a call
AfterReceiver(call) ==
    SubSeq(call.text, Len(ReceiverOf(call)) + 1, Len(call.text))

Truncated(text) == SubSeq(text, 1, Min(100, Len(text)))

\* C8: two calls at the same position that differ only in the receiver
\* name, both names aliases of one algorithm, yield the same outcome:
\* findings equal in file, line, algo (the canonical name), method, bits
\* and risk, the contexts being the first 100 characters of the two
\* receiver names followed by the same text.
C8_AliasEquivalence ==
    (pc = "done" /\ IsOneCallFile /\ TheCall.children[1].type = "attribute"
        /\ ReceiverOf(TheCall) \in AliasNames) =>
        \A other \in Range(EntryOf(ReceiverOf(TheCall)).aliases) :
            LET twin == scan_file(filepath,
                            Module(<<ExpressionStatement(
                                WithReceiver(TheCall, other))>>))
            IN  /\ twin.raised = raised
                /\ Len(twin.results) = Len(results)
                /\ \A i \in DOMAIN results :
                      /\ twin.results[i].file = results[i].file
                      /\ twin.results[i].line = results[i].line
                      /\ twin.results[i].algo = results[i].algo
                      /\ results[i].algo = EntryOf(other).name
                      /\ twin.results[i].method = results[i].method
                      /\ twin.results[i].bits = results[i].bits
                      /\ twin.results[i].risk = results[i].risk
                      /\ results[i].context =
                            Truncated(ReceiverOf(TheCall) \o AfterReceiver(TheCall))
                      /\ twin.results[i].context =
                            Truncated(other \o AfterReceiver(TheCall))

C8_Witness ==
    /\ pc = "done" /\ IsOneCallFile /\ ~raised
    /\ TheCall.children[1].type = "attribute"
    /\ ReceiverOf(TheCall) = "PyRSA"
    /\ Len(results) = 1
    /\ results[1].algo = "RSA"
    /\ results[1].bits = PyInt(1024)
    /\ results[1].risk = "CRITICAL"

-----------------------------------------------------------------------------
(* Properties of _extract_key_size on its own.                             *)

Outcome(o) == [called |-> TRUE, raised |-> o.raised, value |-> o.value]

Without(seq, i) == SubSeq(seq, 1, i - 1) \o SubSeq(seq, i + 1, Len(seq))

RsaKeys == TARGETS[1].arg_keys

\* C9: a positional integer literal is taken as the key size only if its
\* value is >= 128 and not 65537; one that does not qualify is skipped and
\* extraction goes on with the later arguments, so (65537) yields no key
\* size and (65537, 2048) yields 2048.
C9_ExponentExclusion ==
    (x_out.called /\ x_args # NoNode /\ ArgsOf(x_args) # <<>>
        /\ ArgsOf(x_args)[1].type = "integer") =>
        LET first == ArgsOf(x_args)[1]
            rest  == ArgumentList(Tail(ArgsOf(x_args)), 0)
        IN  /\ IF Qualifies(LiteralValue(first.text))
               THEN x_out = Outcome(Returned(LiteralValue(first.text)))
               ELSE x_out = Outcome(_extract_key_size(rest, x_keys))
            /\ x_args = ArgumentList(<<Integer("65537", 0)>>, 0)
                   => x_out = Outcome(Returned(0))
            /\ x_args = ArgumentList(<<Integer("65537", 0), Integer("2048", 0)>>, 0)
                   => x_out = Outcome(Returned(2048))

IsNamed(arg) == arg.type = "keyword_argument"
NameOf(arg)  == arg.children[1].text
ValueOf(arg) == arg.children[3]

\* C10: a named argument contributes a key size only if its name is one of
\* the entry's key-size argument names, and then an integer literal value
\* is taken as it is; a named argument of any other name is ignored
\* whatever its value and position, so (bits=2048, e=65537) and
\* (e=65537, bits=2048) both yield 2048.
C10_NamedArguments ==
    (x_out.called /\ x_args # NoNode) =>
        LET args == ArgsOf(x_args) IN
        /\ \A i \in DOMAIN args :
               (IsNamed(args[i]) /\ NameOf(args[i]) \notin Range(x_keys)) =>
                   x_out = Outcome(_extract_key_size(
                               ArgumentList(Without(args, i), 0), x_keys))
        /\ (/\ args # <<>>
            /\ IsNamed(args[1])
            /\ NameOf(args[1]) \in Range(x_keys)
            /\ ValueOf(args[1]).type = "integer")
           => x_out = Outcome(Returned(LiteralValue(ValueOf(args[1]).text)))
        /\ (/\ x_keys = RsaKeys
            /\ x_args \in
                 {ArgumentList(<<KeywordArgument("bits", Integer("2048", 0)),
                                 KeywordArgument("e", Integer("65537", 0))>>, 0),
                  ArgumentList(<<KeywordArgument("e", Integer("65537", 0)),
                                 KeywordArgument("bits", Integer("2048", 0))>>, 0)})
           => x_out = Outcome(Returned(2048))

\* a bytes literal: its text starts with the prefix letter b, in either case
IsBytePrefixed(text) == startswith(text, "b") \/ startswith(text, "B")

QuotingOverhead(text) == IF IsBytePrefixed(text) THEN 3 ELSE 2

\* C11: when extraction ends at a recognized named argument whose value is
\* a string or byte literal, the key size is 8 x (length of the literal
\* text minus the quoting overhead), the overhead being 2 for a plain
\* quoted literal and 3 for a byte-prefixed one; a 16-byte byte literal
\* yields 128, a 32-character plain literal 256, and the result is never
\* negative.
C11_StringLengthEstimate ==
    (/\ x_out.called /\ x_args # NoNode /\ ArgsOf(x_args) # <<>>
     /\ IsNamed(ArgsOf(x_args)[1])
     /\ NameOf(ArgsOf(x_args)[1]) \in Range(x_keys)
     /\ ValueOf(ArgsOf(x_args)[1]).type \in {"string", "binary_string"})
    => LET text == ValueOf(ArgsOf(x_args)[1]).text IN
       /\ x_out = Outcome(Returned(8 * (Len(text) - QuotingOverhead(text))))
       /\ x_out.value >= 0

C12_Step ==
    /\ catalog' = catalog
    /\ _alias_map' = _alias_map
    /\ pc # "ready" => (results' = results /\ raised' = raised)

RECURSIVE FilesUnder(_, _, _)
FilesUnder(dir, root, above) ==
    {[path |-> path_join(root, f.name), above |-> above, name |-> f.name,
      content |-> f.content] : f \in Range(dir.files)}
    \cup UNION {FilesUnder(d, path_join(root, d.name), Append(above, d.name)) :
                   d \in Range(dir.dirs)}

UnderSkippedDir(f) ==
    \E i \in DOMAIN f.above :
        f.above[i] \in {"node_modules", ".git", "__pycache__", "venv", ".venv", "env"}

HasExtension(f) == endswith(f.name, ".py")

\* the files a directory scan is to scan
Eligible == {f \in FilesUnder(dirtree, dirpath, <<>>) :
                HasExtension(f) /\ ~UnderSkippedDir(f)}

\* seq holds part as a block of neighbouring elements
HasBlock(seq, part) ==
    \E k \in 0..(Len(seq) - Len(part)) :
        \A i \in DOMAIN part : seq[k + i] = part[i]

CallsOn(path) == {i \in DOMAIN scanned : scanned[i].path = path}

\* C13: a directory scan is never aborted by one file: it returns; a file
\* that cannot be read contributes no finding; a file with unusual content
\* (an integer literal argument that is not plain decimal) is scanned
\* without raising; and the findings of every other eligible file are in
\* the returned list.
C13_NeverAborted ==
    d_pc = "done" =>
        /\ ~d_raised
        /\ \A f \in Eligible :
              /\ \A i \in CallsOn(f.path) :
                    /\ ~scanned[i].raised
                    /\ f.content = Unreadable => scanned[i].results = <<>>
              /\ LET own == scan_file(f.path, f.content) IN
                 ~own.raised => HasBlock(all_results, own.results)

\* C14: scan_directory never scans a file that lies under a directory
\* named node_modules, .git, __pycache__, venv, .venv or env, at any depth,
\* whatever its extension; every other file under the root whose extension
\* matches is scanned exactly once.
C14_SkipList ==
    d_pc = "done" =>
        /\ \A f \in FilesUnder(dirtree, dirpath, <<>>) :
              UnderSkippedDir(f) => CallsOn(f.path) = {}
        /\ \A f \in Eligible : Cardinality(CallsOn(f.path)) = 1

\* an alias listed under two entries of the catalog
SharedAlias(targets) ==
    \E i, j \in DOMAIN targets :
        i # j /\ Range(targets[i].aliases) \cap Range(targets[j].aliases) # {}

PropertyOf(asset, name) ==
    LET p == asset.properties IN
    p[CHOOSE i \in DOMAIN p : p[i].name = name].value

\* two findings the export is to put in one asset record
SameAsset(f, g) ==
    /\ f.algo = g.algo /\ f.bits = g.bits
    /\ f.method = g.method /\ f.risk = g.risk

\* C16: the export groups the findings into asset records: findings that
\* agree on algorithm, key size, method and risk tier are occurrences of
\* one asset record, not separate asset records.
C16_GroupedAssets ==
    cbom.called =>
        LET assets == cbom.value.cryptoAssets IN
        \A i, j \in DOMAIN all_results :
            SameAsset(all_results[i], all_results[j]) =>
                \E a \in DOMAIN assets :
                    /\ Occurrence(all_results[i]) \in Range(assets[a].occurrences)
                    /\ Occurrence(all_results[j]) \in Range(assets[a].occurrences)

\* the key size a keySize property states
KeySizeOf(text) ==
    IF text = "Unknown" THEN Unknown ELSE PyInt(LiteralValue(text))

\* the findings an asset record stands for, one for each occurrence
FindingsOf(asset) ==
    [k \in DOMAIN asset.occurrences |->
        [file    |-> asset.occurrences[k].location,
         line    |-> asset.occurrences[k].line,
         algo    |-> asset.name,
         method  |-> PropertyOf(asset, "method"),
         bits    |-> KeySizeOf(PropertyOf(asset, "keySize")),
         risk    |-> PropertyOf(asset, "quantumRisk"),
         context |-> asset.occurrences[k].context]]

RECURSIVE Recovered(_)
Recovered(assets) ==
    IF assets = <<>> THEN <<>>
    ELSE FindingsOf(assets[1]) \o Recovered(Tail(assets))

\* C17: the export loses nothing: the findings read back from cryptoAssets
\* (file, line, context, algorithm, method, key size from its text, risk
\* tier) are the findings handed in, in their order; no asset record holds
\* occurrences of findings with different key sizes; and the findings
\* handed in are still what scan_directory returned.
C17_LosslessExport ==
    cbom.called =>
        LET assets == cbom.value.cryptoAssets IN
        /\ Recovered(assets) = all_results
        /\ \A i, j \in DOMAIN all_results :
               all_results[i].bits # all_results[j].bits =>
                   ~\E a \in DOMAIN assets :
                       /\ Occurrence(all_results[i]) \in Range(assets[a].occurrences)
                       /\ Occurrence(all_results[j]) \in Range(assets[a].occurrences)
        /\ ~d_raised
        /\ all_results = scan_directory(dirpath, dirtree).results

C17_Witness ==
    /\ cbom.called
    /\ \E i, j \in DOMAIN all_results :
          /\ all_results[i].algo = all_results[j].algo
          /\ all_results[i].bits # all_results[j].bits
    /\ \E i \in DOMAIN all_results : all_results[i].bits = Unknown
    /\ \E i, j \in DOMAIN all_results :
          i # j /\ SameAsset(all_results[i], all_results[j])

Tiers == {"CRITICAL", "HIGH", "MEDIUM", "LOW", "UNKNOWN"}

\* the record contract of a finding found in the file at path
Contract(f, path) ==
    /\ f.line >= 1
    /\ Len(f.context) <= 100
    /\ f.risk \in Tiers
    /\ \/ f.bits = Unknown
       \/ f.bits.pytype = "int" /\ f.bits.i > 0
    /\ \E i \in DOMAIN TARGETS :
          TARGETS[i].name = f.algo /\ f.method \in Range(TARGETS[i].methods)
    /\ f.file = normpath(path)
    /\ f.file # ""

\* C18: every finding scan_file or scan_directory returns has line >= 1,
\* a context of at most 100 characters, a risk among the five tiers, bits a
\* positive integer or "Unknown", a canonical algorithm with one of its
\* trigger methods, and as file the normalized path of the file the call
\* was found in, never the empty placeholder; a directory scan returns the
\* findings of its files one file after the other, each file's findings
\* next to each other.
C18_RecordContract ==
    /\ pc = "done" => \A i \in DOMAIN results : Contract(results[i], filepath)
    /\ d_pc = "done" =>
          /\ \A c \in DOMAIN scanned : \A i \in DOMAIN scanned[c].results :
                 Contract(scanned[c].results[i], scanned[c].path)
          /\ ~d_raised => all_results = ResultsOf(scanned)
          /\ \A i, j, k \in DOMAIN all_results :
                 (i < j /\ j < k /\ all_results[i].file = all_results[k].file)
                     => all_results[j].file = all_results[i].file

C18_Witness ==
    /\ d_pc = "done"
    /\ \E i, j \in DOMAIN all_results :
          /\ all_results[i].file = "proj/keys.py"
          /\ all_results[j].file = "proj/pkg/keys.py"
    /\ \E i \in DOMAIN all_results :
          Len(all_results[i].context) = 100 /\ all_results[i].bits = Unknown

\* the key size of a finding as the lookup is to take it: a number, given
\* as a number or as its decimal text, or none ("Unknown", or absent)
FixKeySize(f) ==
    IF f.bits.pytype = "int" THEN f.bits
    ELSE IF f.bits.pytype = "str" /\ f.bits.s # "Unknown"
         THEN PyInt(LiteralValue(f.bits.s))
    ELSE PyNone

RulesWhere(Test(_)) ==
    {i \in DOMAIN STANDARD_FIXES : Test(STANDARD_FIXES[i].key)}

\* the fix generate_fix returns from the rule of index i
FromRule(i) ==
    /\ fix.source = "RULE_ENGINE"
    /\ fix.fix = STANDARD_FIXES[i].fix
    /\ fix.reason = STANDARD_FIXES[i].reason

\* what generate_fix returns for the finding, given the rules that match it
\* exactly and the rules to fall back on
LookupResult(exact, fallback) ==
    IF exact # {} THEN \E i \in exact : FromRule(i)
    ELSE IF fallback # {} THEN \E i \in fallback : FromRule(i)
    ELSE fix.source = "LLM_SKELETON"

\* C19 as stated: generate_fix returns the rule-table fix for the exact
\* (algorithm, method, key size) when that rule exists; otherwise the rule
\* that exists for the algorithm alone, whatever the method and key size;
\* and the generic placeholder only when neither exists; a key size of
\* "Unknown" is no key size.
C19_AlgorithmOnlyRule ==
    fix # NoFix =>
        LET Exact(key) == key = <<finding.algo, finding.method, FixKeySize(finding)>>
            AlgorithmOnly(key) == key[1] = finding.algo /\ key[3] = PyNone
        IN  LookupResult(RulesWhere(Exact), RulesWhere(AlgorithmOnly))

\* C19 (amended): generate_fix returns the rule-table fix for the exact
\* (algorithm, method, key size) when that rule exists; otherwise the rule
\* that exists for the algorithm and method without a key size; and the
\* generic placeholder only when neither exists; a key size of "Unknown"
\* is no key size.
C19_MethodRule ==
    fix # NoFix =>
        LET Exact(key) == key = <<finding.algo, finding.method, FixKeySize(finding)>>
            NoKeySize(key) == key = <<finding.algo, finding.method, PyNone>>
        IN  LookupResult(RulesWhere(Exact), RulesWhere(NoKeySize))

C19_Witness ==
    /\ finding.algo = "AES" /\ finding.method = "new" /\ finding.bits = Unknown
    /\ fix.source = "RULE_ENGINE"
    /\ fix.fix = "AES.new(key, AES.MODE_GCM, nonce=nonce)"

QualifyingPositional(arg) ==
    arg.type = "integer" /\ Qualifies(LiteralValue(arg.text))

RecognizedNamedLiteral(arg, arg_keys) ==
    /\ IsNamed(arg)
    /\ NameOf(arg) \in Range(arg_keys)
    /\ ValueOf(arg).type \in {"integer", "string", "binary_string"}

FirstWhere(args, Test(_)) ==
    CHOOSE i \in DOMAIN args :
        Test(args[i]) /\ \A j \in DOMAIN args : Test(args[j]) => i <= j

\* the argument list holds a qualifying positional integer literal and a
\* recognized named argument with a literal value
HoldsBoth ==
    /\ x_out.called /\ x_args # NoNode
    /\ \E i \in DOMAIN ArgsOf(x_args) : QualifyingPositional(ArgsOf(x_args)[i])
    /\ \E i \in DOMAIN ArgsOf(x_args) :
           RecognizedNamedLiteral(ArgsOf(x_args)[i], x_keys)

RecognizedNamedInteger(arg, arg_keys) ==
    /\ IsNamed(arg)
    /\ NameOf(arg) \in Range(arg_keys)
    /\ ValueOf(arg).type = "integer"

\* C21: named arguments matching known key-size names take priority: when
\* the argument list holds both a qualifying positional integer literal
\* and a recognized named argument with an integer literal value, the
\* extracted key size is the named argument's value, whichever of the two
\* comes first in the list.
C21_NamedPriority ==
    (/\ x_out.called /\ x_args # NoNode
     /\ \E i \in DOMAIN ArgsOf(x_args) : QualifyingPositional(ArgsOf(x_args)[i])
     /\ \E i \in DOMAIN ArgsOf(x_args) :
            RecognizedNamedInteger(ArgsOf(x_args)[i], x_keys))
    => LET args     == ArgsOf(x_args)
           Named(a) == RecognizedNamedInteger(a, x_keys)
           n        == FirstWhere(args, Named)
       IN  x_out = Outcome(Returned(LiteralValue(ValueOf(args[n]).text)))

====
